---- MODULE Spec2Model ----
(***************************************************************************)
(* Model of the eurovision-dataset audio feature pipeline:                 *)
(*   audio_features.py  extraction of one feature bundle per mp3 artifact, *)
(*                      persisted as a JSON document next to the artifact  *)
(*   merge_data.py      flattening of a bundle into columns and the join   *)
(*                      of the flattened rows onto contestants.csv         *)
(*                                                                         *)
(* Python values are tagged records.  A dict keeps its insertion order in  *)
(* `keys` and its bindings in `vals`.  Numbers that come out of librosa,   *)
(* numpy and scipy are uninterpreted terms <<stat, feature, band, audio>>: *)
(* the value of statistic `stat` of band `band` of descriptor `feature` of *)
(* the decoded audio `audio`.                                              *)
(***************************************************************************)
EXTENDS Integers, Sequences, FiniteSets, TLC

VARIABLES
    audio_data,           \* flatten_audio_features: its argument
    flat_data,            \* flatten_audio_features: its outcome
    chroma_cens,          \* extract_audio_features: the CENS chromagram
    key,                  \* extract_audio_features: the estimated key
    df,                   \* main: the catalog read from contestants.csv
    docs,                 \* the file system: path of a .json document -> content
    idx,                  \* main: position of the row loop
    audio_features_list,  \* main: the flattened rows collected so far
    merged_df,            \* main: the table written to the output csv
    pc,                   \* main: "idle", "loop", "done" or "crashed"
    files,                \* extraction batch: the glob result
    audio,                \* the mp3 artifacts: path -> decoded audio or corrupt
    fi,                   \* extraction batch: position of the file loop
    epc,                  \* extraction batch: "idle", "loop", "dumping", "ended", "crashed", "killed"
    runs,                 \* number of batch runs started
    extracted,            \* history: artifact -> number of bundles computed for it
    tables                \* history: the outcome of each merge of the pipeline

vars == <<audio_data, flat_data, chroma_cens, key, df, docs, idx,
          audio_features_list, merged_df, pc, files, audio, fi, epc, runs,
          extracted, tables>>

flattenVars == <<audio_data, flat_data>>
keyVars == <<chroma_cens, key>>
mergeVars == <<df, idx, audio_features_list, merged_df, pc>>
batchVars == <<files, audio, fi, epc, runs, extracted>>

(***************************************************************************)
(* Bounds                                                                  *)
(***************************************************************************)
MaxAudio == 2      \* distinct decoded recordings
NFrames == 2       \* time frames of a chromagram
MaxEnergy == 1     \* largest chroma energy of one frame
MaxRows == 2       \* rows of the catalog
MaxRuns == 2       \* runs of the extraction batch

(***************************************************************************)
(* Python values                                                           *)
(***************************************************************************)
None == [t |-> "null"]
Num(term) == [t |-> "num", n |-> term]
Str(s) == [t |-> "str", s |-> s]
List(elems) == [t |-> "list", elems |-> elems]
Dict(keys, vals) == [t |-> "dict", keys |-> keys, vals |-> vals]
EmptyDict == Dict(<<>>, <<>>)
EmptyList == List(<<>>)

IsDict(v) == v.t = "dict"
IsList(v) == v.t = "list"

\* d[k] = v
DictSet(d, k, v) ==
    IF k \in DOMAIN d.vals
    THEN Dict(d.keys, [d.vals EXCEPT ![k] = v])
    ELSE Dict(Append(d.keys, k), (k :> v) @@ d.vals)

\* d.get(k, default)
DictGet(d, k, default) == IF k \in DOMAIN d.vals THEN d.vals[k] ELSE default

\* d without the key k
DictDel(d, k) ==
    Dict(SelectSeq(d.keys, LAMBDA x : x # k),
         [x \in DOMAIN d.vals \ {k} |-> d.vals[x]])

\* a.update(b): the keys of a keep their place, those new in b follow in b's order
DictUpdate(a, b) ==
    Dict(a.keys \o SelectSeq(b.keys, LAMBDA k : k \notin DOMAIN a.vals), b.vals @@ a.vals)

RECURSIVE DictAssign(_, _, _)
\* the dict that the assignments d[k] = v make of the empty dict, for every
\* <<k, v>> of items[lo..hi] in order
DictAssign(items, lo, hi) ==
    IF lo > hi THEN EmptyDict
    ELSE IF lo = hi THEN Dict(<<items[lo][1]>>, items[lo][1] :> items[lo][2])
    ELSE LET mid == (lo + hi) \div 2
         IN DictUpdate(DictAssign(items, lo, mid), DictAssign(items, mid + 1, hi))

\* the dict literal {k1: v1, k2: v2, ...} from a sequence of <<k, v>>
DictOf(items) == DictAssign(items, 1, Len(items))

RECURSIVE Concat(_, _, _)
\* ss[lo] \o ... \o ss[hi]
Concat(ss, lo, hi) ==
    IF lo > hi THEN <<>>
    ELSE IF lo = hi THEN ss[lo]
    ELSE LET mid == (lo + hi) \div 2
         IN Concat(ss, lo, mid) \o Concat(ss, mid + 1, hi)

(***************************************************************************)
(* audio_features.py                                                       *)
(***************************************************************************)
StatNames == <<"mean", "variance", "median", "skewness", "kurtosis", "min", "max">>

\* detailed_stats(feature_array): feature_array is band `band` of `feature` of audio `a`
detailed_stats(feature, band, a) ==
    DictOf([j \in 1..Len(StatNames) |->
              <<StatNames[j], Num(<<StatNames[j], feature, band, a>>)>>])

NumPitchClasses == 12
N_MFCC == 20
NumContrastBands == 7
NumTonnetz == 6

PitchClasses == 0..(NumPitchClasses - 1)

key_labels == <<"C", "C#", "D", "D#", "E", "F", "F#", "G", "G#", "A", "A#", "B">>

RECURSIVE SumSeq(_)
SumSeq(s) == IF s = <<>> THEN 0 ELSE Head(s) + SumSeq(Tail(s))

\* chroma_cens.mean(axis=1), scaled by the number of frames, which is the same
\* for every pitch class (so order and ties are those of the means)
chroma_mean(cens) == [i \in PitchClasses |-> SumSeq(cens[i])]

RECURSIVE ArgmaxScanLast(_, _, _)
ArgmaxScanLast(a, i, best) ==
    IF i >= NumPitchClasses THEN best
    ELSE ArgmaxScanLast(a, i + 1, IF a[i] >= a[best] THEN i ELSE best)

RECURSIVE ArgmaxScan(_, _, _)
\* numpy argmax: the first index that holds the maximum
ArgmaxScan(a, i, best) ==
    IF i >= NumPitchClasses THEN best
    ELSE ArgmaxScan(a, i + 1, IF a[i] > a[best] THEN i ELSE best)

argmaxLast(a) == ArgmaxScanLast(a, 1, 0)

argmax(a) == ArgmaxScan(a, 1, 0)

estimate_key(cens) == key_labels[argmax(chroma_mean(cens)) + 1]

\* the decoded audio of an artifact: [ok, id, cens]; ok = FALSE when librosa.load raises
extract_audio_features(a) ==
    DictOf(<<
        <<"tempo", Num(<<"value", "tempo", 0, a.id>>)>>,
        <<"danceability", Num(<<"value", "danceability", 0, a.id>>)>>,
        <<"key", Str(estimate_key(a.cens))>>,
        <<"duration", Num(<<"value", "duration", 0, a.id>>)>>,
        <<"chroma_stft_stats", detailed_stats("chroma_stft", 0, a.id)>>,
        <<"spectral_centroid_stats", detailed_stats("spectral_centroid", 0, a.id)>>,
        <<"zero_crossing_rate_stats", detailed_stats("zero_crossing_rate", 0, a.id)>>,
        <<"rms_stats", detailed_stats("rms", 0, a.id)>>,
        <<"mfcc_stats",
          List([b \in 1..N_MFCC |-> detailed_stats("mfcc", b - 1, a.id)])>>,
        <<"spectral_contrast_stats",
          List([b \in 1..NumContrastBands |-> detailed_stats("spectral_contrast", b - 1, a.id)])>>,
        <<"tonnetz_stats",
          List([b \in 1..NumTonnetz |-> detailed_stats("tonnetz", b - 1, a.id)])>>
    >>)

(***************************************************************************)
(* merge_data.py: flatten_audio_features                                   *)
(***************************************************************************)
SingleStats == <<"chroma_stft_stats", "spectral_centroid_stats",
                 "zero_crossing_rate_stats", "rms_stats">>

TopLevel == <<"tempo", "danceability", "key", "duration">>

\* f"{stats_name}_{k}"
SingleColumn(stats_name, k) == stats_name \o "_" \o k

BandColumnNoIndex(name, i, k) == name \o "_" \o k

\* f"{name}_{i}_{k}"
BandColumn(name, i, k) == name \o "_" \o ToString(i) \o "_" \o k

\* lines 14-17: the assignments flat[name] = audio_data.get(name, None)
FlatTop(data) ==
    [j \in 1..Len(TopLevel) |-> <<TopLevel[j], DictGet(data, TopLevel[j], None)>>]

\* for k, v in stats_dict.items(): flat[f"{stats_name}_{k}"] = v
FlatItems(stats_name, d) ==
    [j \in 1..Len(d.keys) |-> <<SingleColumn(stats_name, d.keys[j]), d.vals[d.keys[j]]>>]

\* for k in [...]: flat[f"{stats_name}_{k}"] = None
FlatNone(stats_name) ==
    [j \in 1..Len(StatNames) |-> <<SingleColumn(stats_name, StatNames[j]), None>>]

\* the default of audio_data.get(stats_name, {})
SingleStatsDefault == EmptyDict

\* lines 23-36
FlatSingles(data) ==
    Concat([s \in 1..Len(SingleStats) |->
              LET stats_name == SingleStats[s]
                  stats_dict == DictGet(data, stats_name, SingleStatsDefault)
              IN IF IsDict(stats_dict)
                 THEN FlatItems(stats_name, stats_dict)
                 ELSE FlatNone(stats_name)],
           1, Len(SingleStats))

\* for k, v in obj.items(): flat[f"{name}_{i}_{k}"] = v
FlatBandItems(name, i, obj) ==
    [j \in 1..Len(obj.keys) |-> <<BandColumn(name, i, obj.keys[j]), obj.vals[obj.keys[j]]>>]

\* for k in [...]: flat[f"{name}_{i}_{k}"] = None
FlatBandNone(name, i) ==
    [j \in 1..Len(StatNames) |-> <<BandColumn(name, i, StatNames[j]), None>>]

\* for i, obj in enumerate(array): ...   (i counts from 0)
FlatEnumerate(name, elems) ==
    Concat([e \in 1..Len(elems) |-> FlatBandItems(name, e - 1, elems[e])], 1, Len(elems))

\* for i in range(n): ...
FlatRange(name, n) ==
    Concat([e \in 1..n |-> FlatBandNone(name, e - 1)], 1, n)

\* lines 40-49, 52-60, 63-71
FlatArray(data, name, n) ==
    LET array == DictGet(data, name, EmptyList)
    IN IF IsList(array) /\ Len(array.elems) > 0
       THEN FlatEnumerate(name, array.elems)
       ELSE FlatRange(name, n)

MultiBand == <<"mfcc_stats", "spectral_contrast_stats", "tonnetz_stats">>
BandCount == <<N_MFCC, NumContrastBands, NumTonnetz>>

\* the calls that raise AttributeError: audio_data.get on a value that is no dict,
\* obj.items() on an element of a non-empty band list that is no dict
FlattenRaises(data) ==
    \/ ~IsDict(data)
    \/ \E m \in 1..Len(MultiBand) :
         LET array == DictGet(data, MultiBand[m], EmptyList)
         IN IsList(array) /\ \E e \in 1..Len(array.elems) : ~IsDict(array.elems[e])

Raised == [raised |-> TRUE, flat |-> EmptyDict]
Returned(flat) == [raised |-> FALSE, flat |-> flat]

\* the assignments to flat that flatten_audio_features makes, in order
FlatAssignments(data) ==
    FlatTop(data) \o FlatSingles(data)
    \o FlatArray(data, MultiBand[1], BandCount[1])
    \o FlatArray(data, MultiBand[2], BandCount[2])
    \o FlatArray(data, MultiBand[3], BandCount[3])

\* flatten_audio_features(audio_data): the returned dict, or the exception
flatten_audio_features(data) ==
    IF FlattenRaises(data) THEN Raised
    ELSE Returned(DictOf(FlatAssignments(data)))

(***************************************************************************)
(* Inputs                                                                  *)
(***************************************************************************)
ZeroFrames == [t \in 1..NFrames |-> 0]

\* the pitch classes that carry energy in the chromagrams checked
HotClasses == {2, 7, 11}

\* chromagrams: any energy in every frame of a hot class, silence elsewhere
Chromagrams ==
    { [i \in PitchClasses |-> IF i \in HotClasses THEN h[i] ELSE ZeroFrames] :
        h \in [HotClasses -> [1..NFrames -> 0..MaxEnergy]] }

\* the chromagram of a recording whose energy is all in pitch class k
OneHot(k) == [i \in PitchClasses |-> [t \in 1..NFrames |-> IF i = k THEN MaxEnergy ELSE 0]]

AudioSamples == { [ok |-> TRUE, id |-> n, cens |-> OneHot(k)] :
                    n \in 1..MaxAudio, k \in PitchClasses }

ValidBundles == { extract_audio_features(a) : a \in AudioSamples }

\* the band list of a bundle, changed
WithBands(b, name, elems) == DictSet(b, name, List(elems))

\* documents that parse as JSON and are no valid bundle
Malformations(b) ==
    { DictDel(b, "tempo"),
      DictDel(b, "rms_stats"),
      DictDel(b, "mfcc_stats"),
      DictSet(b, "rms_stats", None),
      DictSet(b, "rms_stats", DictDel(b.vals["rms_stats"], "max")),
      WithBands(b, "mfcc_stats", SubSeq(b.vals["mfcc_stats"].elems, 1, 3)),
      WithBands(b, "mfcc_stats", Append(b.vals["mfcc_stats"].elems, b.vals["rms_stats"])),
      WithBands(b, "tonnetz_stats", <<>>),
      WithBands(b, "spectral_contrast_stats", <<None>>),
      List(<<b>>) }

MalformedBundles == UNION { Malformations(b) : b \in ValidBundles }

(***************************************************************************)
(* Idle values of the state a specification does not use                   *)
(***************************************************************************)
NotCalled == [raised |-> FALSE, flat |-> None]
NoTable == [written |-> FALSE]

FlattenIdle == audio_data = None /\ flat_data = NotCalled
KeyIdle == chroma_cens = <<>> /\ key = ""
MergeIdle == df = <<>> /\ idx = 0 /\ audio_features_list = <<>>
             /\ merged_df = NoTable /\ pc = "idle"
BatchIdle == files = <<>> /\ audio = <<>> /\ fi = 0 /\ epc = "idle" /\ runs = 0
             /\ extracted = <<>>

(***************************************************************************)
(* flatten_audio_features applied to one argument                          *)
(***************************************************************************)
InitFlatten ==
    /\ audio_data \in {EmptyDict} \cup ValidBundles \cup MalformedBundles
    /\ flat_data = NotCalled
    /\ KeyIdle /\ MergeIdle /\ BatchIdle /\ docs = <<>> /\ tables = <<>>

Flatten ==
    /\ flat_data = NotCalled
    /\ flat_data' = flatten_audio_features(audio_data)
    /\ UNCHANGED <<audio_data, keyVars, mergeVars, batchVars, docs, tables>>

SpecFlatten == InitFlatten /\ [][Flatten]_vars

(***************************************************************************)
(* the key estimation of extract_audio_features                            *)
(***************************************************************************)
InitKey ==
    /\ chroma_cens \in Chromagrams
    /\ key = ""
    /\ FlattenIdle /\ MergeIdle /\ BatchIdle /\ docs = <<>> /\ tables = <<>>

EstimateKey ==
    /\ key = ""
    /\ key' = estimate_key(chroma_cens)
    /\ UNCHANGED <<chroma_cens, flattenVars, mergeVars, batchVars, docs, tables>>

SpecKey == InitKey /\ [][EstimateKey]_vars

(***************************************************************************)
(* merge_data.py: find_json_path and main                                  *)
(***************************************************************************)
Forbidden == {"?", "/", "\\", "<", ">", "\"", "|", "*", ":"}

\* s.replace("?", "#").replace("/", "#")...: every forbidden character becomes "#"
Sanitize(s) == [i \in 1..Len(s) |-> IF s[i] \in Forbidden THEN "#" ELSE s[i]]

DigitChars == <<"0", "1", "2", "3", "4", "5", "6", "7", "8", "9">>

IsDigits(s) ==
    /\ Len(s) > 0
    /\ \A i \in 1..Len(s) : \E d \in 1..Len(DigitChars) : DigitChars[d] = s[i]

DigitValue(c) == (CHOOSE d \in 1..Len(DigitChars) : DigitChars[d] = c) - 1

RECURSIVE ParseInt(_)
\* int(s) for a string of digits
ParseInt(s) ==
    IF s = <<>> THEN 0
    ELSE 10 * ParseInt(SubSeq(s, 1, Len(s) - 1)) + DigitValue(s[Len(s)])

\* int(row["year"]) raises ValueError unless the cell holds a number
YearRaises(row) == ~IsDigits(row.year)

\* os.path.join(base_audio_folder, year_str, f"{country}_{song}_{performer}.json")
JsonPath(row) ==
    [dir |-> "audio/" \o ToString(ParseInt(row.year)),
     stem |-> Sanitize(row.to_country) \o <<"_">> \o Sanitize(row.song)
              \o <<"_">> \o Sanitize(row.performer),
     ext |-> "json"]

NoPath == [dir |-> "", stem |-> <<>>, ext |-> ""]

\* find_json_path(row): the path if os.path.exists(json_path), else None
find_json_path(row, fs) ==
    IF JsonPath(row) \in DOMAIN fs THEN JsonPath(row) ELSE NoPath

\* json.dump(features, fp) of a whole document
json_dump(v) == [kind |-> "json", value |-> v]

\* what open(output_path, 'w') leaves before json.dump has written
PartialDoc == [kind |-> "partial"]

\* json.load(f) raises JSONDecodeError
LoadRaises(doc) == doc.kind # "json"

\* json.load(f)
json_load(doc) == doc.value

PrependRow(list, flat) == <<flat>> \o list

\* audio_features_list.append(flat_data)
AppendRow(list, flat) == Append(list, flat)

RECURSIVE ColumnUnion(_, _, _)
\* the columns of pd.DataFrame(list_of_dicts): the keys in order of first appearance
ColumnUnion(list, lo, hi) ==
    IF lo > hi THEN EmptyDict
    ELSE IF lo = hi THEN list[lo]
    ELSE LET mid == (lo + hi) \div 2
         IN DictUpdate(ColumnUnion(list, lo, mid), ColumnUnion(list, mid + 1, hi))

\* pd.DataFrame(audio_features_list): a key a row lacks is null in that row
DataFrame(list) ==
    LET columns == ColumnUnion(list, 1, Len(list)).keys
    IN [columns |-> columns,
        rows |-> [i \in 1..Len(list) |->
                    [c \in { columns[j] : j \in 1..Len(columns) } |-> DictGet(list[i], c, None)]]]

CatalogColumns == <<"year", "to_country", "performer", "song">>

\* pd.concat([df, audio_features_df], axis=1), written by to_csv
concat(catalog, adf) ==
    [written |-> TRUE,
     columns |-> CatalogColumns \o adf.columns,
     rows |-> [i \in 1..Len(catalog) |-> [catalog |-> catalog[i], audio |-> adf.rows[i]]]]

Row(year, country, song, performer) ==
    [year |-> year, to_country |-> country, performer |-> performer, song |-> song]

\* the rows a catalog is made of; the first two resolve to the same document,
\* the last has an empty year cell (fillna(""))
CatalogRows ==
    { Row(<<"1", "9", "5", "6">>, <<"N", "L">>, <<"a", "?">>, <<"x">>),
      Row(<<"1", "9", "5", "6">>, <<"N", "L">>, <<"a", "#">>, <<"x">>),
      Row(<<"2", "0", "2", "1">>, <<"S", "E">>, <<"b", ":", "c">>, <<"y">>),
      Row(<<>>, <<"S", "E">>, <<"b">>, <<"y">>) }

Catalogs == UNION { [1..n -> CatalogRows] : n \in 0..MaxRows }

DocPaths == { JsonPath(r) : r \in { x \in CatalogRows : ~YearRaises(x) } }

Recording(n) == [ok |-> TRUE, id |-> n, cens |-> OneHot(n % NumPitchClasses)]

Corrupt == [ok |-> FALSE, id |-> 0, cens |-> <<>>]

\* the documents found on disk: complete bundles, documents that parse and are
\* no valid bundle, and documents cut short
DocContents ==
    { json_dump(extract_audio_features(Recording(n))) : n \in 1..MaxAudio }
    \cup { json_dump(DictDel(extract_audio_features(Recording(1)), "tempo")),
           json_dump(WithBands(extract_audio_features(Recording(1)), "mfcc_stats",
                               Append(extract_audio_features(Recording(1)).vals["mfcc_stats"].elems,
                                      detailed_stats("mfcc", N_MFCC, 1)))),
           json_dump(WithBands(extract_audio_features(Recording(1)), "tonnetz_stats",
                               <<None>>)),
           PartialDoc }

FileSystems == UNION { [D -> DocContents] : D \in SUBSET DocPaths }

InitMerge ==
    /\ df \in Catalogs
    /\ docs \in FileSystems
    /\ idx = 1
    /\ audio_features_list = <<>>
    /\ merged_df = NoTable
    /\ pc = "loop"
    /\ FlattenIdle /\ KeyIdle /\ BatchIdle /\ tables = <<>>

\* lines 108-116, 124: the document of the row is found, loaded and flattened
MainRowFound ==
    /\ pc = "loop" /\ idx <= Len(df)
    /\ ~YearRaises(df[idx])
    /\ LET json_file_path == find_json_path(df[idx], docs)
       IN /\ json_file_path # NoPath
          /\ ~LoadRaises(docs[json_file_path])
          /\ LET flat == flatten_audio_features(json_load(docs[json_file_path]))
             IN /\ ~flat.raised
                /\ audio_features_list' = AppendRow(audio_features_list, flat.flat)
    /\ idx' = idx + 1
    /\ UNCHANGED <<df, docs, merged_df, pc, flattenVars, keyVars, batchVars, tables>>

\* lines 108-110, 117-124: no document is found
MainRowMissing ==
    /\ pc = "loop" /\ idx <= Len(df)
    /\ ~YearRaises(df[idx])
    /\ find_json_path(df[idx], docs) = NoPath
    /\ audio_features_list' =
           AppendRow(audio_features_list, flatten_audio_features(EmptyDict).flat)
    /\ idx' = idx + 1
    /\ UNCHANGED <<df, docs, merged_df, pc, flattenVars, keyVars, batchVars, tables>>

\* an exception of line 84, 115 or 116 leaves main: nothing is written
MainRowRaises ==
    /\ pc = "loop" /\ idx <= Len(df)
    /\ \/ YearRaises(df[idx])
       \/ /\ ~YearRaises(df[idx])
          /\ find_json_path(df[idx], docs) # NoPath
          /\ \/ LoadRaises(docs[find_json_path(df[idx], docs)])
             \/ /\ ~LoadRaises(docs[find_json_path(df[idx], docs)])
                /\ flatten_audio_features(json_load(docs[find_json_path(df[idx], docs)])).raised
    /\ pc' = "crashed"
    /\ UNCHANGED <<df, docs, idx, audio_features_list, merged_df,
                   flattenVars, keyVars, batchVars, tables>>

\* lines 127-131
MainWrite ==
    /\ pc = "loop" /\ idx > Len(df)
    /\ merged_df' = concat(df, DataFrame(audio_features_list))
    /\ pc' = "done"
    /\ UNCHANGED <<df, docs, idx, audio_features_list, flattenVars, keyVars, batchVars, tables>>

NextMerge == MainRowFound \/ MainRowMissing \/ MainRowRaises \/ MainWrite

SpecMerge == InitMerge /\ [][NextMerge]_vars

(***************************************************************************)
(* audio_features.py: the extraction batch                                 *)
(***************************************************************************)
\* the mp3 artifacts under audio/
Mp3Paths == { [p EXCEPT !.ext = "mp3"] : p \in DocPaths }

\* os.path.splitext(f)[0] + '.json'
OutputPath(f) == [f EXCEPT !.ext = "json"]

RECURSIVE Orderings(_)
\* the orders in which glob may list a set of files
Orderings(S) ==
    IF S = {} THEN { <<>> }
    ELSE UNION { { <<f>> \o o : o \in Orderings(S \ {f}) } : f \in S }

Recordings == { Recording(n) : n \in 1..MaxAudio } \cup { Corrupt }

\* the documents of an earlier complete extraction of some of the artifacts
CachedDocs(au) ==
    { [p \in { OutputPath(f) : f \in D } |->
         json_dump(extract_audio_features(au[[p EXCEPT !.ext = "mp3"]]))] :
      D \in SUBSET { f \in Mp3Paths : au[f].ok } }

FailedExtractionLeavesFile(fs, out) == (out :> PartialDoc) @@ fs

\* the file system after extract_audio_features has raised in line 74: lines
\* 76-77 are not reached
FailedExtraction(fs, out) == fs

InitBatch ==
    /\ files \in UNION { Orderings(S) : S \in SUBSET Mp3Paths }
    /\ audio \in [Mp3Paths -> Recordings]
    /\ docs \in CachedDocs(audio)
    /\ fi = 1
    /\ epc = "loop"
    /\ runs = 1
    /\ extracted = [f \in Mp3Paths |-> 0]
    /\ FlattenIdle /\ KeyIdle /\ MergeIdle /\ tables = <<>>

\* line 72: the document exists, nothing is done for this file
ExtractSkip ==
    /\ epc = "loop" /\ fi <= Len(files)
    /\ OutputPath(files[fi]) \in DOMAIN docs
    /\ fi' = fi + 1
    /\ UNCHANGED <<files, audio, epc, runs, extracted, docs,
                   flattenVars, keyVars, mergeVars, tables>>

\* lines 72-74, 21: librosa.load raises and the script ends with the exception
ExtractRaises ==
    /\ epc = "loop" /\ fi <= Len(files)
    /\ OutputPath(files[fi]) \notin DOMAIN docs
    /\ ~audio[files[fi]].ok
    /\ docs' = FailedExtraction(docs, OutputPath(files[fi]))
    /\ epc' = "crashed"
    /\ UNCHANGED <<files, audio, fi, runs, extracted,
                   flattenVars, keyVars, mergeVars, tables>>

\* lines 72-76: the features are computed and open(output_path, 'w') creates the file
ExtractOpen ==
    /\ epc = "loop" /\ fi <= Len(files)
    /\ OutputPath(files[fi]) \notin DOMAIN docs
    /\ audio[files[fi]].ok
    /\ extracted' = [extracted EXCEPT ![files[fi]] = @ + 1]
    /\ docs' = (OutputPath(files[fi]) :> PartialDoc) @@ docs
    /\ epc' = "dumping"
    /\ UNCHANGED <<files, audio, fi, runs, flattenVars, keyVars, mergeVars, tables>>

\* line 77: json.dump writes the document, the file is closed
ExtractDump ==
    /\ epc = "dumping"
    /\ docs' = [docs EXCEPT ![OutputPath(files[fi])] =
                    json_dump(extract_audio_features(audio[files[fi]]))]
    /\ fi' = fi + 1
    /\ epc' = "loop"
    /\ UNCHANGED <<files, audio, runs, extracted, flattenVars, keyVars, mergeVars, tables>>

\* the process is stopped from outside (a signal, a full disk while line 77 writes)
Interrupt ==
    /\ epc \in {"loop", "dumping"}
    /\ epc' = "killed"
    /\ UNCHANGED <<files, audio, fi, runs, extracted, docs,
                   flattenVars, keyVars, mergeVars, tables>>

\* line 68: the file list is exhausted
BatchEnd ==
    /\ epc = "loop" /\ fi > Len(files)
    /\ epc' = "ended"
    /\ UNCHANGED <<files, audio, fi, runs, extracted, docs,
                   flattenVars, keyVars, mergeVars, tables>>

\* the script is run again over the same artifacts: lines 66-68
StartRun ==
    /\ epc \in {"ended", "crashed", "killed"}
    /\ runs < MaxRuns
    /\ runs' = runs + 1
    /\ fi' = 1
    /\ epc' = "loop"
    /\ UNCHANGED <<files, audio, extracted, docs, flattenVars, keyVars, mergeVars, tables>>

NextBatch ==
    ExtractSkip \/ ExtractRaises \/ ExtractOpen \/ ExtractDump \/ Interrupt
    \/ BatchEnd \/ StartRun

SpecBatch == InitBatch /\ [][NextBatch]_vars

(***************************************************************************)
(* The pipeline: the extraction batch, then main, run twice                *)
(***************************************************************************)
\* an artifact of the pipeline: its recording, or a file that does not decode
PipelineAudio(f) ==
    { Corrupt, IF f.dir = "audio/1956" THEN Recording(1) ELSE Recording(MaxAudio) }

InitPipeline ==
    /\ df \in Catalogs
    /\ files \in UNION { Orderings(S) : S \in SUBSET Mp3Paths }
    /\ audio \in { au \in [Mp3Paths -> Recordings] :
                      \A f \in Mp3Paths : au[f] \in PipelineAudio(f) }
    /\ docs = <<>>
    /\ fi = 1
    /\ epc = "loop"
    /\ runs = 1
    /\ extracted = [f \in Mp3Paths |-> 0]
    /\ idx = 0 /\ audio_features_list = <<>> /\ merged_df = NoTable /\ pc = "idle"
    /\ tables = <<>>
    /\ FlattenIdle /\ KeyIdle

\* merge_data.py is started once the batch is over: lines 103-106
BeginMerge ==
    /\ epc \in {"ended", "crashed"}
    /\ pc = "idle"
    /\ pc' = "loop"
    /\ idx' = 1
    /\ audio_features_list' = <<>>
    /\ UNCHANGED <<df, merged_df, docs, batchVars, flattenVars, keyVars, tables>>

\* the pipeline is over: the table on disk is its outcome; the next run starts
PipelineRunOver ==
    /\ pc \in {"done", "crashed"}
    /\ Len(tables) < MaxRuns
    /\ tables' = Append(tables, merged_df)
    /\ pc' = "idle"
    /\ IF Len(tables) + 1 < MaxRuns
       THEN runs' = runs + 1 /\ fi' = 1 /\ epc' = "loop"
       ELSE UNCHANGED <<runs, fi>> /\ epc' = "idle"
    /\ UNCHANGED <<df, idx, audio_features_list, merged_df, docs, files, audio, extracted,
                   flattenVars, keyVars>>

NextPipeline ==
    ExtractSkip \/ ExtractRaises \/ ExtractOpen \/ ExtractDump \/ BatchEnd
    \/ BeginMerge \/ MainRowFound \/ MainRowMissing \/ MainRowRaises \/ MainWrite
    \/ PipelineRunOver

SpecPipeline == InitPipeline /\ [][NextPipeline]_vars

(***************************************************************************)
(* The fixed schema of the flattened row                                   *)
(***************************************************************************)
StatNameSet == { StatNames[j] : j \in 1..Len(StatNames) }

\* the (field, index, statname) triples; index -1 and statname "" where there is none
Schema ==
    { <<TopLevel[j], -1, "">> : j \in 1..Len(TopLevel) }
    \cup { <<SingleStats[s], -1, k>> : s \in 1..Len(SingleStats), k \in StatNameSet }
    \cup UNION { { <<MultiBand[m], i, k>> : i \in 0..(BandCount[m] - 1), k \in StatNameSet } :
                 m \in 1..Len(MultiBand) }

\* the column name of a triple
Column(tr) ==
    IF tr[3] = "" THEN tr[1]
    ELSE IF tr[2] = -1 THEN SingleColumn(tr[1], tr[3])
    ELSE BandColumn(tr[1], tr[2], tr[3])

SchemaColumns == { Column(tr) : tr \in Schema }

\* a StatSummary: the 7 statistics, each a number
IsStatSummary(v) ==
    /\ IsDict(v)
    /\ DOMAIN v.vals = StatNameSet
    /\ \A k \in StatNameSet : v.vals[k].t = "num"

\* a valid bundle: 4 scalars, 4 single summaries, lists of 20, 7 and 6 summaries
IsValidBundle(b) ==
    /\ IsDict(b)
    /\ DOMAIN b.vals = { TopLevel[j] : j \in 1..Len(TopLevel) }
                        \cup { SingleStats[j] : j \in 1..Len(SingleStats) }
                        \cup { MultiBand[j] : j \in 1..Len(MultiBand) }
    /\ b.vals["tempo"].t = "num" /\ b.vals["danceability"].t = "num"
    /\ b.vals["duration"].t = "num"
    /\ b.vals["key"].t = "str"
    /\ \E i \in 1..Len(key_labels) : key_labels[i] = b.vals["key"].s
    /\ \A j \in 1..Len(SingleStats) : IsStatSummary(b.vals[SingleStats[j]])
    /\ \A m \in 1..Len(MultiBand) :
          /\ IsList(b.vals[MultiBand[m]])
          /\ Len(b.vals[MultiBand[m]].elems) = BandCount[m]
          /\ \A e \in 1..BandCount[m] : IsStatSummary(b.vals[MultiBand[m]].elems[e])

KeySet(d) == { d.keys[j] : j \in 1..Len(d.keys) }

FlattenCalled == flat_data # NotCalled

(***************************************************************************)
(* Claims about flatten_audio_features                                     *)
(***************************************************************************)

\* C1: flatten_audio_features applied to the empty dict and applied to any
\* valid bundle return the same column names in the same order.
C1_SameColumnsAsAbsent ==
    (FlattenCalled /\ IsValidBundle(audio_data))
        => flat_data.flat.keys = flatten_audio_features(EmptyDict).flat.keys

\* C2 as stated: for a valid bundle the result has exactly one column per
\* triple of the fixed schema, distinct triples have distinct column names, and
\* the columns number 249.
C2_Original ==
    (FlattenCalled /\ IsValidBundle(audio_data))
        => /\ ~flat_data.raised
           /\ KeySet(flat_data.flat) = SchemaColumns
           /\ \A t1, t2 \in Schema : Column(t1) = Column(t2) => t1 = t2
           /\ Len(flat_data.flat.keys) = 249
           /\ Cardinality(KeySet(flat_data.flat)) = 249

\* C2 as amended: for a valid bundle the result has exactly one column per
\* triple of the fixed schema, distinct triples have distinct column names, and
\* the columns number 4 + 4*7 + 20*7 + 7*7 + 6*7 = 263.
C2_OneColumnPerTriple ==
    (FlattenCalled /\ IsValidBundle(audio_data))
        => /\ ~flat_data.raised
           /\ KeySet(flat_data.flat) = SchemaColumns
           /\ \A t1, t2 \in Schema : Column(t1) = Column(t2) => t1 = t2
           /\ Cardinality(Schema) = 4 + 4*7 + 20*7 + 7*7 + 6*7
           /\ Len(flat_data.flat.keys) = 263
           /\ Cardinality(KeySet(flat_data.flat)) = 263

C2_Witness ==
    /\ FlattenCalled /\ IsValidBundle(audio_data)
    /\ "mfcc_stats_19_max" \in KeySet(flat_data.flat)
    /\ "tonnetz_stats_5_mean" \in KeySet(flat_data.flat)

(***************************************************************************)
(* Claim about the key estimation                                          *)
(***************************************************************************)
KeyIndex == CHOOSE i \in PitchClasses : key_labels[i + 1] = key

\* C10: the key is the label of a pitch class whose time-averaged chroma
\* energy is maximal, the lowest such class on a tie, and always one of the
\* 12 labels.
C10_KeyIsFirstMaximum ==
    key # ""
        => /\ \E i \in PitchClasses : key_labels[i + 1] = key
           /\ \A j \in PitchClasses :
                 /\ chroma_mean(chroma_cens)[j] <= chroma_mean(chroma_cens)[KeyIndex]
                 /\ chroma_mean(chroma_cens)[j] = chroma_mean(chroma_cens)[KeyIndex]
                      => KeyIndex <= j

\* a tie between two classes with energy, neither of them C
C10_Witness ==
    /\ key = "D"
    /\ chroma_mean(chroma_cens)[2] > 0
    /\ chroma_mean(chroma_cens)[7] = chroma_mean(chroma_cens)[2]

(***************************************************************************)
(* Claims about main                                                       *)
(***************************************************************************)
HasDoc(row) == ~YearRaises(row) /\ JsonPath(row) \in DOMAIN docs
Missing(row) == ~YearRaises(row) /\ JsonPath(row) \notin DOMAIN docs
ValidDoc(row) ==
    /\ HasDoc(row)
    /\ ~LoadRaises(docs[JsonPath(row)])
    /\ IsValidBundle(json_load(docs[JsonPath(row)]))
\* a document that parses and is no valid bundle
MalformedDoc(row) ==
    /\ HasDoc(row)
    /\ ~LoadRaises(docs[JsonPath(row)])
    /\ ~IsValidBundle(json_load(docs[JsonPath(row)]))
\* a document that cannot be parsed, or whose contents make flattening fail
FailingDoc(row) ==
    /\ HasDoc(row)
    /\ \/ LoadRaises(docs[JsonPath(row)])
       \/ flatten_audio_features(json_load(docs[JsonPath(row)])).raised

RowsOf(catalog) == { catalog[i] : i \in 1..Len(catalog) }
MainOver == pc \in {"done", "crashed"}
YearsParse == \A r \in RowsOf(df) : ~YearRaises(r)

\* the flattened row computed for a row of the catalog
ExpectedFlat(row) ==
    IF HasDoc(row)
    THEN flatten_audio_features(json_load(docs[JsonPath(row)])).flat
    ELSE flatten_audio_features(EmptyDict).flat

RowAllNull(r) == \A c \in DOMAIN r.audio : r.audio[c] = None

\* C3: for a catalog of N rows, whatever rows miss their artifact, main writes
\* a table of exactly N rows, and row i carries the catalog fields of input
\* row i followed by the values flattened for input row i; main only stops
\* short of that on a row whose year or document raises.
C3_RowsPreserved ==
    /\ pc = "done" =>
         /\ merged_df.written
         /\ Len(merged_df.rows) = Len(df)
         /\ \A i \in 1..Len(df) :
              LET expected == ExpectedFlat(df[i])
                  audio_row == merged_df.rows[i].audio
              IN /\ merged_df.rows[i].catalog = df[i]
                 /\ DOMAIN expected.vals \subseteq DOMAIN audio_row
                 /\ \A c \in DOMAIN audio_row : audio_row[c] = DictGet(expected, c, None)
    /\ pc = "crashed" => \E r \in RowsOf(df) : YearRaises(r) \/ FailingDoc(r)

\* the first row misses its artifact, the second has a valid bundle
C3_Witness ==
    /\ pc = "done" /\ Len(df) = 2
    /\ Missing(df[1]) /\ ValidDoc(df[2])
    /\ ~RowAllNull(merged_df.rows[2])

\* C4: a document that cannot be parsed or flattened does not abort main: the
\* table is still written, with every row, and the row of that document is the
\* all-null row.
C4_RowFailureDoesNotAbort ==
    (MainOver /\ YearsParse) =>
        /\ pc = "done"
        /\ merged_df.written
        /\ Len(merged_df.rows) = Len(df)
        /\ \A i \in 1..Len(df) : FailingDoc(df[i]) => RowAllNull(merged_df.rows[i])

\* C5: in the merged table every row whose artifact is missing is null in
\* every column of the fixed schema, none omitted, and every row with a valid
\* bundle is non-null in every column of the fixed schema, for every pattern of
\* missing rows.
C5_MissingRowsAllNull ==
    pc = "done" =>
        \A i \in 1..Len(df) :
            /\ Missing(df[i]) =>
                 \A c \in SchemaColumns :
                    /\ c \in DOMAIN merged_df.rows[i].audio
                    /\ merged_df.rows[i].audio[c] = None
            /\ ValidDoc(df[i]) =>
                 \A c \in SchemaColumns :
                    /\ c \in DOMAIN merged_df.rows[i].audio
                    /\ merged_df.rows[i].audio[c] # None

\* C6: a document that parses and is no valid bundle is discarded: its row is
\* the all-null row, and the table has no column outside the fixed schema.
C6_MalformedDiscarded ==
    (MainOver /\ YearsParse) =>
        /\ merged_df.written
        /\ \A j \in 1..Len(merged_df.columns) :
               merged_df.columns[j] \in { CatalogColumns[k] : k \in 1..Len(CatalogColumns) }
                                        \cup SchemaColumns
        /\ \A i \in 1..Len(df) : MalformedDoc(df[i]) => RowAllNull(merged_df.rows[i])

(***************************************************************************)
(* Claims about the extraction batch and the pipeline                      *)
(***************************************************************************)
BatchOver == epc \in {"ended", "crashed", "killed"}

CompleteDoc(doc) == doc.kind = "json" /\ IsValidBundle(doc.value)

\* C7: over any sequence of runs the bundle of an artifact is computed at most
\* once, and between runs every document that exists is a complete, parseable
\* bundle: an extraction that fails or is interrupted leaves none behind.
C7_ComputedOnceAndComplete ==
    /\ \A f \in DOMAIN extracted : extracted[f] <= 1
    /\ BatchOver => \A p \in DOMAIN docs : CompleteDoc(docs[p])

\* C8: when a run of the batch is over, by reaching the end of the file list
\* or by a file that does not decode, every decodable artifact of the file
\* list has its document.
C8_OtherArtifactsExtracted ==
    epc \in {"ended", "crashed"} =>
        \A i \in 1..Len(files) : audio[files[i]].ok => OutputPath(files[i]) \in DOMAIN docs

\* C9: every run of the pipeline over the same catalog and artifacts leaves
\* the same output table: the same rows, columns, column order and values.
C9_SameTableEveryRun ==
    \A i, j \in 1..Len(tables) : tables[i] = tables[j]

\* the second run loaded from the cache a bundle that the first run computed
C9_Witness ==
    /\ Len(tables) >= 2
    /\ tables[2].written
    /\ \E i \in 1..Len(tables[2].rows) : ~RowAllNull(tables[2].rows[i])
    /\ \E f \in DOMAIN extracted : extracted[f] = 1 /\ OutputPath(f) \in DOMAIN docs

====
